---- MODULE Spec2Model ----
(***************************************************************************)
(* The two pyRevit commands of LearnRevitAPI as state machines.            *)
(*                                                                         *)
(*  - "Rename Views"  (Dev.panel/FirstButton.pushbutton/script.py)         *)
(*  - "Manual Rebar Placement" (Dev.panel/InsertRebar.pushbutton/script.py)*)
(*                                                                         *)
(* A behaviour is one invocation of one of the two commands.  Strings are  *)
(* sequences of one-character strings, so that str.replace, strip, split   *)
(* and int are computed rather than assumed.  The Revit document is the    *)
(* environment: a view-name assignment raises exactly when another view    *)
(* already carries the name; Line.CreateBound / Rebar.CreateFromCurves may *)
(* raise at any call (the script wraps them in try/except).  Lengths are   *)
(* integers in thousandths of a document unit and positions are exact      *)
(* fractions num/den: the float rounding of the script's arithmetic is not *)
(* modelled.                                                               *)
(***************************************************************************)
EXTENDS Integers, Sequences, FiniteSets, TLC

VARIABLES
    cmd,        \* which command this invocation runs: "rename" or "rebar"
    pc,         \* position of the running script
    \* ---- Rename Views ----
    names,      \* the document: names[v] is the Name of view v
    names0,     \* names when the command was invoked (history)
    sel_view,   \* script.py:54/58  list of selected views
    rule,       \* script.py:82-85  [prefix, find, replace, suffix]
    txn,        \* the Transaction t: "none", "started", "committed"
    idx,        \* position of the outer for loop in sel_view
    i,          \* the retry loop's i of range(20)
    old_name,   \* script.py:94
    new_name,   \* script.py:95/104
    printed,    \* the lines printed at script.py:101, as <<old, new>>
    tried,      \* tried[v]: the assignments attempted on v, in order (history)
    \* ---- Manual Rebar Placement ----
    elements,   \* script.py:146  the filtered selection, a list of elements
    selected_type, \* script.py:163-167
    count_input, \* script.py:67  the string the user entered (history)
    vertical,   \* script.py:173
    horizontal, \* script.py:173
    eidx,       \* position of the for loop of script.py:177 in elements
    phase,      \* inside place_rebars: "idle", "bbox", "V" or "H" loop, "commit"
    t,          \* the Transaction of script.py:104: "none", "started"
    pending,    \* bars created inside the open transaction
    calls,      \* calls[e]: the curves passed to Rebar.CreateFromCurves for element e
    bars,       \* bars[e]: the new bars the document holds for element e
    outcome,    \* outcome[e]: "todo", "nobbox", "committed", "rolledback" (history)
    opened,     \* opened[e]: transactions started for element e (history)
    success_count, \* script.py:176-179
    summary     \* the numbers shown by the alert of script.py:182-192

renameVars == <<names, names0, sel_view, rule, txn, idx, i, old_name, new_name, printed, tried>>
rebarVars == <<elements, selected_type, count_input, vertical, horizontal, eidx, phase, t, pending,
               calls, bars, outcome, opened, success_count, summary>>
vars == <<cmd, pc, renameVars, rebarVars>>

-----------------------------------------------------------------------------
(* Bounds *)

\* longest initial view name drawn from the alphabet {a, b}
MaxNameLen == 2
\* longest UI selection
MaxSel == 2

\* for i in range(20)
MaxAttempts == 20

-----------------------------------------------------------------------------
(* Strings *)

RECURSIVE Stars(_)
Stars(k) == IF k = 0 THEN <<>> ELSE <<"*">> \o Stars(k - 1)

StartsWith(s, f) == Len(f) <= Len(s) /\ SubSeq(s, 1, Len(f)) = f

\* str.replace with an empty pattern: the replacement goes before every
\* character and after the last one
RECURSIVE ReplaceEmpty(_, _)
ReplaceEmpty(s, r) ==
    IF s = <<>> THEN r ELSE r \o <<Head(s)>> \o ReplaceEmpty(Tail(s), r)

\* str.replace(find, replace): every non-overlapping occurrence, left to right
RECURSIVE StrReplace(_, _, _)
StrReplace(s, f, r) ==
    IF f = <<>> THEN ReplaceEmpty(s, r)
    ELSE IF s = <<>> THEN <<>>
    ELSE IF StartsWith(s, f)
         THEN r \o StrReplace(SubSeq(s, Len(f) + 1, Len(s)), f, r)
         ELSE <<Head(s)>> \o StrReplace(Tail(s), f, r)

\* the prefix is left out
NewNameNoPrefix(rl, old) == StrReplace(old, rl.find, rl.replace) \o rl.suffix

\* new_name = prefix + old_name.replace(find, replace) + suffix
NewName(rl, old) == rl.prefix \o StrReplace(old, rl.find, rl.replace) \o rl.suffix

-----------------------------------------------------------------------------
(* Rename Views: inputs *)

FloorPlan1 == <<"F","l","o","o","r","P","l","a","n"," ","1">>
ExampleRule ==
    [prefix |-> <<"L","-">>, find |-> <<"F","l","o","o","r","P","l","a","n">>,
     replace |-> <<"L","e","v","e","l">>, suffix |-> <<>>]

RECURSIVE StringsUpTo(_)
StringsUpTo(n) ==
    IF n = 0 THEN {<<>>}
    ELSE LET S == StringsUpTo(n - 1)
         IN  S \cup {s \o <<c>> : s \in S, c \in {"a", "b"}}

BaseNames == StringsUpTo(MaxNameLen) \ {<<>>}

\* views named b, b*, b**, ... : the names a candidate "b" collides with
Chain(k) == [j \in 1..k |-> <<"b">> \o Stars(j - 1)]
ChainLens == {0, 1, MaxAttempts - 1, MaxAttempts}

Distinct(ns) == \A v, w \in 1..Len(ns) : ns[v] = ns[w] => v = w

Documents ==
    { d \in { <<n1, n2>> \o Chain(k) : n1 \in BaseNames, n2 \in BaseNames, k \in ChainLens }
        : Distinct(d) }
    \cup { <<FloorPlan1, <<"a">> >> }

Rules ==
    [prefix : {<<>>, <<"a">>}, find : {<<>>, <<"a">>, <<"a","b">>},
     replace : {<<>>, <<"b">>}, suffix : {<<>>, <<"*">>}]
    \cup {ExampleRule}

\* an element of the UI selection: one of the first two views of the document,
\* or an element that is not a View
Pickable(ns) == {v \in 1..Len(ns) : v <= 2}
SelectableElements(ns) ==
    {[isView |-> TRUE, id |-> v] : v \in Pickable(ns)} \cup {[isView |-> FALSE, id |-> 0]}

Range(s) == {s[p] : p \in 1..Len(s)}

RECURSIVE SeqsNoRepeat(_, _)
SeqsNoRepeat(S, n) ==
    IF n = 0 THEN {<<>>}
    ELSE LET T == SeqsNoRepeat(S, n - 1)
         IN  T \cup UNION { {Append(s, x) : x \in S \ Range(s)} :
                              s \in {q \in T : Len(q) = n - 1} }

Selections(ns) == SeqsNoRepeat(SelectableElements(ns), MaxSel)
Picks(ns) == SeqsNoRepeat(Pickable(ns), MaxSel)

-----------------------------------------------------------------------------
(* Rename Views: the script *)

\* sel_view = [el for el in sel_elem if issubclass(type(el), View)]
RECURSIVE OnlyViews(_)
OnlyViews(sel) ==
    IF sel = <<>> THEN <<>>
    ELSE IF Head(sel).isView THEN <<Head(sel).id>> \o OnlyViews(Tail(sel))
    ELSE OnlyViews(Tail(sel))

\* two sentinel characters are appended per retry
RetryTwoStars(nm) == nm \o <<"*", "*">>

\* script.py:104  new_name += '*'
Retry(nm) == nm \o <<"*">>

\* the check of script.py:61 is missing
AfterPickUnchecked(picked) == "form"

\* script.py:57-62  where the script goes with what the picker returned
AfterPick(picked) == IF picked = <<>> THEN "noviews" ELSE "form"

\* giving up on one view ends the outer loop
AfterExhaustedBreak(k) == Len(sel_view) + 1

\* script.py:92, 98  the outer loop's next position once range(20) is used up
AfterExhausted(k) == k + 1

\* the host accepts any name
NameInUseNever(ns, v, nm) == FALSE

\* the host rejects view.Name = nm when another view already has that name
NameInUse(ns, v, nm) == \E w \in 1..Len(ns) : w # v /\ ns[w] = nm

NoRule == [prefix |-> <<>>, find |-> <<>>, replace |-> <<>>, suffix |-> <<>>]

renameRest == <<names, names0, sel_view, rule, txn, idx, old_name, new_name, printed, tried>>

RenameIdle ==
    /\ names = <<>> /\ names0 = <<>> /\ sel_view = <<>> /\ rule = NoRule /\ txn = "none"
    /\ idx = 0 /\ old_name = <<>> /\ new_name = <<>> /\ printed = <<>> /\ tried = <<>>

RebarIdle ==
    /\ elements = <<>> /\ selected_type = 0 /\ count_input = <<>>
    /\ vertical = 0 /\ horizontal = 0
    /\ eidx = 0 /\ phase = "idle" /\ t = "none" /\ pending = 0
    /\ calls = <<>> /\ bars = <<>> /\ outcome = <<>> /\ opened = <<>>
    /\ success_count = 0 /\ summary = <<>>

RenameInit ==
    /\ cmd = "rename"
    /\ pc = "select"
    /\ names \in Documents
    /\ names0 = names
    /\ sel_view = <<>>
    /\ rule = NoRule
    /\ txn = "none"
    /\ idx = 0
    /\ i = 0
    /\ old_name = <<>>
    /\ new_name = <<>>
    /\ printed = <<>>
    /\ tried = [v \in 1..Len(names) |-> <<>>]
    /\ RebarIdle

\* script.py:52-58  read the UI selection, keep the views
SelectViews ==
    /\ cmd = "rename" /\ pc = "select"
    /\ \E sel \in Selections(names) :
         /\ sel_view' = OnlyViews(sel)
         /\ pc' = IF OnlyViews(sel) = <<>> THEN "pick" ELSE "form"
    /\ UNCHANGED <<cmd, names, names0, rule, txn, idx, i, old_name, new_name, printed, tried, rebarVars>>

\* script.py:57-58  nothing selected: forms.select_views()
PickViews ==
    /\ cmd = "rename" /\ pc = "pick"
    /\ \E picked \in Picks(names) :
         /\ sel_view' = picked
         /\ pc' = AfterPick(picked)
    /\ UNCHANGED <<cmd, names, names0, rule, txn, idx, i, old_name, new_name, printed, tried, rebarVars>>

\* script.py:61-62  forms.alert(..., exitscript=True)
AbortNoViews ==
    /\ cmd = "rename" /\ pc = "noviews"
    /\ pc' = "aborted"
    /\ UNCHANGED <<cmd, renameVars, rebarVars>>

\* script.py:78-85  the user fills the form and presses the button
SubmitForm ==
    /\ cmd = "rename" /\ pc = "form"
    /\ \E rl \in Rules : rule' = rl
    /\ pc' = "start"
    /\ UNCHANGED <<cmd, names, names0, sel_view, txn, idx, i, old_name, new_name, printed, tried, rebarVars>>

\* script.py:78-82  the user closes the form: form.values stays {} and
\* user_inputs['prefix'] raises KeyError, which ends the script
CancelForm ==
    /\ cmd = "rename" /\ pc = "form"
    /\ pc' = "keyerror"
    /\ UNCHANGED <<cmd, renameVars, rebarVars>>

\* script.py:88-90
StartTransaction ==
    /\ cmd = "rename" /\ pc = "start"
    /\ txn' = "started"
    /\ idx' = 1
    /\ pc' = "loop"
    /\ UNCHANGED <<cmd, names, names0, sel_view, rule, i, old_name, new_name, printed, tried, rebarVars>>

\* script.py:92-95
BeginView ==
    /\ cmd = "rename" /\ pc = "loop" /\ idx <= Len(sel_view)
    /\ old_name' = names[sel_view[idx]]
    /\ new_name' = NewName(rule, names[sel_view[idx]])
    /\ i' = 0
    /\ pc' = "try"
    /\ UNCHANGED <<cmd, names, names0, sel_view, rule, txn, idx, printed, tried, rebarVars>>

\* script.py:98-102  the assignment is accepted
AssignOk ==
    /\ cmd = "rename" /\ pc = "try" /\ i < MaxAttempts
    /\ ~NameInUse(names, sel_view[idx], new_name)
    /\ names' = [names EXCEPT ![sel_view[idx]] = new_name]
    /\ tried' = [tried EXCEPT ![sel_view[idx]] = Append(@, [name |-> new_name, ok |-> TRUE])]
    /\ printed' = Append(printed, <<old_name, new_name>>)
    /\ idx' = idx + 1
    /\ pc' = "loop"
    /\ UNCHANGED <<cmd, names0, sel_view, rule, txn, i, old_name, new_name, rebarVars>>

\* script.py:98-104  the assignment raises
AssignRejected ==
    /\ cmd = "rename" /\ pc = "try" /\ i < MaxAttempts
    /\ NameInUse(names, sel_view[idx], new_name)
    /\ tried' = [tried EXCEPT ![sel_view[idx]] = Append(@, [name |-> new_name, ok |-> FALSE])]
    /\ new_name' = Retry(new_name)
    /\ i' = i + 1
    /\ UNCHANGED <<cmd, pc, names, names0, sel_view, rule, txn, idx, old_name, printed, rebarVars>>

\* script.py:98  range(20) is used up
Exhausted ==
    /\ cmd = "rename" /\ pc = "try" /\ i = MaxAttempts
    /\ idx' = AfterExhausted(idx)
    /\ pc' = "loop"
    /\ UNCHANGED <<cmd, names, names0, sel_view, rule, txn, i, old_name, new_name, printed, tried, rebarVars>>

\* script.py:106-109
Commit ==
    /\ cmd = "rename" /\ pc = "loop" /\ idx > Len(sel_view)
    /\ txn' = "committed"
    /\ pc' = "done"
    /\ UNCHANGED <<cmd, names, names0, sel_view, rule, idx, i, old_name, new_name, printed, tried, rebarVars>>

-----------------------------------------------------------------------------
(* Manual Rebar Placement: numbers *)

\* SNI_COVER = 0.040, in thousandths of a document unit
SNI_COVER == 40

Max(a, b) == IF a >= b THEN a ELSE b
Abs(a) == IF a < 0 THEN -a ELSE a

RECURSIVE GCD(_, _)
GCD(a, b) == IF b = 0 THEN a ELSE GCD(b, a % b)

\* the fraction n/d (d > 0) in lowest terms
Frac(n, d) ==
    LET g == GCD(Abs(n), d)
    IN  [num |-> n \div g, den |-> d \div g]

\* the clear extent is divided by the number of bars, not of gaps
SpacingByCount(extent, count) ==
    IF count > 1 THEN Frac(extent - 2 * SNI_COVER, Max(1, count)) ELSE Frac(0, 1)

\* script.py:98 / 101
\*   (extent - 2 * SNI_COVER) / max(1, (count - 1)) if count > 1 else 0
Spacing(extent, count) ==
    IF count > 1 THEN Frac(extent - 2 * SNI_COVER, Max(1, count - 1)) ELSE Frac(0, 1)

\* script.py:109 / 123   lo + SNI_COVER + i * spacing
BarOffset(lo, k, sp) == Frac((lo + SNI_COVER) * sp.den + k * sp.num, sp.den)

\* script.py:94-95, 109-113  the curve of vertical bar k of an element with box b
VerticalCurve(b, count, k) ==
    [dir |-> "V",
     at |-> BarOffset(b.minX, k, Spacing(b.maxX - b.minX, count)),
     y |-> b.minY + SNI_COVER,
     from |-> b.minZ + SNI_COVER,
     to |-> b.maxZ - SNI_COVER]

\* script.py:94-95, 123-127  the curve of horizontal bar k
HorizontalCurve(b, count, k) ==
    [dir |-> "H",
     at |-> BarOffset(b.minZ, k, Spacing(b.maxZ - b.minZ, count)),
     y |-> b.minY + SNI_COVER,
     from |-> b.minX + SNI_COVER,
     to |-> b.maxX - SNI_COVER]

-----------------------------------------------------------------------------
(* Manual Rebar Placement: the count string *)

\* the dialog was dismissed: ask_for_string returns None
None == <<"<None>">>
Whitespace == {" ", "\t"}
Digits == <<"0", "1", "2", "3", "4", "5", "6", "7", "8", "9">>
IsDigit(c) == \E d \in 1..10 : Digits[d] = c
DigitVal(c) == (CHOOSE d \in 1..10 : Digits[d] = c) - 1

\* str.strip()
RECURSIVE LStrip(_)
LStrip(s) == IF s # <<>> /\ Head(s) \in Whitespace THEN LStrip(Tail(s)) ELSE s
RECURSIVE RStrip(_)
RStrip(s) ==
    IF s # <<>> /\ s[Len(s)] \in Whitespace THEN RStrip(SubSeq(s, 1, Len(s) - 1)) ELSE s
Strip(s) == RStrip(LStrip(s))

\* str.split(): the maximal runs of non-whitespace characters
RECURSIVE SplitFrom(_, _)
SplitFrom(s, cur) ==
    IF s = <<>> THEN (IF cur = <<>> THEN <<>> ELSE <<cur>>)
    ELSE IF Head(s) \in Whitespace
         THEN (IF cur = <<>> THEN <<>> ELSE <<cur>>) \o SplitFrom(Tail(s), <<>>)
         ELSE SplitFrom(Tail(s), Append(cur, Head(s)))
Split(s) == SplitFrom(s, <<>>)

RECURSIVE DigitsValue(_, _)
DigitsValue(s, acc) ==
    IF s = <<>> THEN acc ELSE DigitsValue(Tail(s), 10 * acc + DigitVal(Head(s)))

\* int(tok): an optional sign and at least one decimal digit, else ValueError
ParseInt(tok) ==
    LET signed == tok # <<>> /\ Head(tok) \in {"+", "-"}
        body == IF signed THEN Tail(tok) ELSE tok
    IN  IF body # <<>> /\ \A p \in 1..Len(body) : IsDigit(body[p])
        THEN [ok |-> TRUE,
              val |-> IF signed /\ Head(tok) = "-" THEN -DigitsValue(body, 0)
                      ELSE DigitsValue(body, 0)]
        ELSE [ok |-> FALSE, val |-> 0]

Raised == [ok |-> FALSE, vertical |-> 0, horizontal |-> 0]

\* the counts are not raised to 1
GetRebarCountsNoMinimum(input) ==
    IF input = None \/ input = <<>> THEN Raised
    ELSE LET parts == Split(Strip(input))
         IN  IF parts = <<>> THEN Raised
             ELSE LET v == ParseInt(parts[1])
                      h == IF Len(parts) > 1 THEN ParseInt(parts[2]) ELSE v
                  IN  IF v.ok /\ h.ok
                      THEN [ok |-> TRUE, vertical |-> v.val, horizontal |-> h.val]
                      ELSE Raised

\* script.py:73-82  get_rebar_counts on the string the user entered (None when
\* the dialog is dismissed); ok = FALSE when the script exits through an alert
GetRebarCounts(input) ==
    IF input = None \/ input = <<>> THEN Raised
    ELSE LET parts == Split(Strip(input))
         IN  IF parts = <<>> THEN Raised
             ELSE LET v == ParseInt(parts[1])
                      h == IF Len(parts) > 1 THEN ParseInt(parts[2]) ELSE v
                  IN  IF v.ok /\ h.ok
                      THEN [ok |-> TRUE, vertical |-> Max(1, v.val),
                            horizontal |-> Max(1, h.val)]
                      ELSE Raised

-----------------------------------------------------------------------------
(* Manual Rebar Placement: inputs *)

\* largest bar count entered
MaxCount == 3
\* longest UI selection of elements
MaxElems == 2

\* get_BoundingBox(None) returned no box
NoBox == [none |-> TRUE]
Box(x0, x1, y0, z0, z1) == [minX |-> x0, maxX |-> x1, minY |-> y0, minZ |-> z0, maxZ |-> z1]

\* the elements of the document the user can select
Pool ==
    << [kind |-> "FamilyInstance", wall |-> "-", bbox |-> Box(0, 1000, 0, 0, 2000)],
       [kind |-> "Floor", wall |-> "-", bbox |-> NoBox],
       [kind |-> "Wall", wall |-> "Basic", bbox |-> Box(0, 30, 70, -200, 2800)],
       [kind |-> "Floor", wall |-> "-", bbox |-> Box(-500, 3500, 0, 100, 160)],
       [kind |-> "Wall", wall |-> "Curtain", bbox |-> Box(0, 200, 0, 0, 3000)],
       [kind |-> "Grid", wall |-> "-", bbox |-> NoBox] >>

\* selections of up to MaxElems elements, listed in document order
ElementSelections ==
    {s \in SeqsNoRepeat(1..Len(Pool), MaxElems) : \A p, q \in 1..Len(s) : p < q => s[p] < s[q]}

\* the display names of the document's rebar bar types
RebarTypeNames == <<"D10", "D13">>
\* SelectFromList.show returned nothing
NoPick == ""

CountInputs ==
    { <<Digits[v + 1]>> : v \in 1..MaxCount }
    \cup { <<Digits[v + 1], " ", Digits[h + 1]>> : v \in 1..MaxCount, h \in 1..MaxCount }
    \cup { None, <<>>, <<"a","b","c">>, <<" "," ">>, <<"0">>, <<"-","2"," ","2">>,
           <<" ","2","\t","1"," ">>, <<"2"," ","x">>, <<"1"," ","2"," ","x">>, <<"1",".","5">> }

-----------------------------------------------------------------------------
(* Manual Rebar Placement: the script *)

\* script.py:50-57  a missing element is skipped; FamilyInstance, Wall and Floor
\* are kept, a wall only when its WallType.Kind is Basic
CanHost(el) ==
    /\ el.kind \in {"FamilyInstance", "Wall", "Floor"}
    /\ ~(el.kind = "Wall" /\ el.wall # "Basic")

RECURSIVE ValidElements(_)
ValidElements(sel) ==
    IF sel = <<>> THEN <<>>
    ELSE IF CanHost(Pool[Head(sel)]) THEN <<Pool[Head(sel)]>> \o ValidElements(Tail(sel))
    ELSE ValidElements(Tail(sel))

\* script.py:163-167  the first type whose name is the name picked
FirstNamed(nm) == CHOOSE k \in 1..Len(RebarTypeNames) :
    /\ RebarTypeNames[k] = nm
    /\ \A j \in 1..(k - 1) : RebarTypeNames[j] # nm

\* a failed element ends the run
AfterElementStop(e) == IF outcome'[e] = "committed" THEN e + 1 ELSE Len(elements) + 1

\* script.py:177  the element the loop goes to after place_rebars returned for element e
AfterElement(e) == e + 1

\* the bars created before the exception stay in the document
KeptOnExceptionAll(created) == created

\* script.py:104  `with Transaction(...) as t`: leaving the block through an
\* exception disposes the transaction, which rolls back what it created
KeptOnException(created) == 0

RebarInit ==
    /\ cmd = "rebar"
    /\ pc = "elements"
    /\ i = 0
    /\ RenameIdle
    /\ RebarIdle

\* script.py:43-61, 146  get_valid_elements()
GetValidElements ==
    /\ cmd = "rebar" /\ pc = "elements"
    /\ \E sel \in ElementSelections :
         LET valid == ValidElements(sel)
         IN  /\ elements' = valid
             /\ calls' = [e \in 1..Len(valid) |-> <<>>]
             /\ bars' = [e \in 1..Len(valid) |-> 0]
             /\ outcome' = [e \in 1..Len(valid) |-> "todo"]
             /\ opened' = [e \in 1..Len(valid) |-> 0]
             /\ pc' = IF valid = <<>> THEN "aborted" ELSE "type"
    /\ UNCHANGED <<cmd, i, renameRest, selected_type, count_input, vertical, horizontal, eidx, phase, t,
                   pending, success_count, summary>>

\* script.py:148-170  pick a rebar type by name, or dismiss the list
SelectRebarType ==
    /\ cmd = "rebar" /\ pc = "type"
    /\ \E nm \in Range(RebarTypeNames) \cup {NoPick} :
         IF nm = NoPick
         THEN pc' = "aborted" /\ UNCHANGED selected_type
         ELSE pc' = "counts" /\ selected_type' = FirstNamed(nm)
    /\ UNCHANGED <<cmd, i, renameRest, elements, count_input, vertical, horizontal, eidx, phase, t,
                   pending, calls, bars, outcome, opened, success_count, summary>>

\* script.py:172-176  get_rebar_counts() returns the two counts
EnterCounts ==
    /\ cmd = "rebar" /\ pc = "counts"
    /\ \E input \in CountInputs :
         /\ GetRebarCounts(input).ok
         /\ count_input' = input
         /\ vertical' = GetRebarCounts(input).vertical
         /\ horizontal' = GetRebarCounts(input).horizontal
    /\ success_count' = 0
    /\ eidx' = 1
    /\ pc' = "next"
    /\ UNCHANGED <<cmd, i, renameRest, elements, selected_type, phase, t,
                   pending, calls, bars, outcome, opened, summary>>

\* script.py:73-74, 81-82  get_rebar_counts() exits the script through an alert
RejectCounts ==
    /\ cmd = "rebar" /\ pc = "counts"
    /\ \E input \in CountInputs :
         /\ ~GetRebarCounts(input).ok
         /\ count_input' = input
    /\ pc' = "aborted"
    /\ UNCHANGED <<cmd, i, renameRest, elements, selected_type, vertical, horizontal, eidx,
                   phase, t, pending, calls, bars, outcome, opened, success_count, summary>>

\* script.py:177-178, 88-91  the element has no bounding box: return False
SkipNoBBox ==
    /\ cmd = "rebar" /\ pc = "next" /\ eidx <= Len(elements)
    /\ elements[eidx].bbox = NoBox
    /\ outcome' = [outcome EXCEPT ![eidx] = "nobbox"]
    /\ eidx' = AfterElement(eidx)
    /\ UNCHANGED <<cmd, pc, i, renameRest, elements, selected_type, count_input, vertical, horizontal,
                   phase, t, pending, calls, bars, opened, success_count, summary>>

\* script.py:177-178, 88-105  spacing computed, the transaction started
StartPlacement ==
    /\ cmd = "rebar" /\ pc = "next" /\ eidx <= Len(elements)
    /\ elements[eidx].bbox # NoBox
    /\ t' = "started"
    /\ opened' = [opened EXCEPT ![eidx] = @ + 1]
    /\ pending' = 0
    /\ phase' = "V"
    /\ i' = 0
    /\ pc' = "place"
    /\ UNCHANGED <<cmd, renameRest, elements, selected_type, count_input, vertical, horizontal, eidx,
                   calls, bars, outcome, success_count, summary>>

\* the loop of script.py:108 or 122 that is running, its count and the curve of its bar k
LoopCount == IF phase = "V" THEN vertical ELSE horizontal
LoopCurve(k) ==
    IF phase = "V" THEN VerticalCurve(elements[eidx].bbox, vertical, k)
    ELSE HorizontalCurve(elements[eidx].bbox, horizontal, k)

\* script.py:108-119 / 122-133  one bar: the line is built and the rebar created
PlaceBar ==
    /\ cmd = "rebar" /\ pc = "place" /\ phase \in {"V", "H"} /\ i < LoopCount
    /\ calls' = [calls EXCEPT ![eidx] = Append(@, LoopCurve(i))]
    /\ pending' = pending + 1
    /\ i' = i + 1
    /\ UNCHANGED <<cmd, pc, renameRest, elements, selected_type, count_input, vertical, horizontal, eidx,
                   phase, t, bars, outcome, opened, success_count, summary>>

\* script.py:108 / 122  the loop is over: on to the horizontal bars, then to the commit
EndLoop ==
    /\ cmd = "rebar" /\ pc = "place" /\ phase \in {"V", "H"} /\ i = LoopCount
    /\ phase' = IF phase = "V" THEN "H" ELSE "commit"
    /\ i' = 0
    /\ UNCHANGED <<cmd, pc, renameRest, elements, selected_type, count_input, vertical, horizontal, eidx,
                   t, pending, calls, bars, outcome, opened, success_count, summary>>

\* script.py:135-136, 178-179  t.Commit(), return True, success_count += 1
CommitPlacement ==
    /\ cmd = "rebar" /\ pc = "place" /\ phase = "commit"
    /\ bars' = [bars EXCEPT ![eidx] = @ + pending]
    /\ pending' = 0
    /\ t' = "none"
    /\ outcome' = [outcome EXCEPT ![eidx] = "committed"]
    /\ success_count' = success_count + 1
    /\ eidx' = AfterElement(eidx)
    /\ phase' = "idle"
    /\ pc' = "next"
    /\ UNCHANGED <<cmd, i, renameRest, elements, selected_type, count_input, vertical, horizontal,
                   calls, opened, summary>>

\* script.py:104, 138-140  an exception inside the with block: the transaction is
\* disposed, the handler prints and returns False
Failed ==
    /\ bars' = [bars EXCEPT ![eidx] = @ + KeptOnException(pending)]
    /\ pending' = 0
    /\ t' = "none"
    /\ outcome' = [outcome EXCEPT ![eidx] = "rolledback"]
    /\ eidx' = AfterElement(eidx)
    /\ phase' = "idle"
    /\ pc' = "next"
    /\ UNCHANGED <<cmd, i, renameRest, elements, selected_type, count_input, vertical, horizontal,
                   opened, success_count, summary>>

\* script.py:110-113 / 124-127  Line.CreateBound raises
LineRaises ==
    /\ cmd = "rebar" /\ pc = "place" /\ phase \in {"V", "H"} /\ i < LoopCount
    /\ UNCHANGED calls
    /\ Failed

\* script.py:114-119 / 128-133  Rebar.CreateFromCurves raises
CreateRaises ==
    /\ cmd = "rebar" /\ pc = "place" /\ phase \in {"V", "H"} /\ i < LoopCount
    /\ calls' = [calls EXCEPT ![eidx] = Append(@, LoopCurve(i))]
    /\ Failed

\* script.py:135  t.Commit() raises
CommitRaises ==
    /\ cmd = "rebar" /\ pc = "place" /\ phase = "commit"
    /\ UNCHANGED calls
    /\ Failed

\* script.py:181-192  the final alert
ShowSummary ==
    /\ cmd = "rebar" /\ pc = "next" /\ eidx > Len(elements)
    /\ summary' = <<success_count, Len(elements), vertical, horizontal>>
    /\ pc' = "done"
    /\ UNCHANGED <<cmd, i, renameRest, elements, selected_type, count_input, vertical, horizontal, eidx,
                   phase, t, pending, calls, bars, outcome, opened, success_count>>

RebarRun ==
    \/ SkipNoBBox \/ StartPlacement \/ PlaceBar \/ EndLoop \/ CommitPlacement
    \/ LineRaises \/ CreateRaises \/ CommitRaises \/ ShowSummary

-----------------------------------------------------------------------------

RenameRun == StartTransaction \/ BeginView \/ AssignOk \/ AssignRejected \/ Exhausted \/ Commit

RenameNext ==
    \/ SelectViews \/ PickViews \/ AbortNoViews \/ SubmitForm \/ CancelForm
    \/ StartTransaction \/ BeginView \/ AssignOk \/ AssignRejected \/ Exhausted \/ Commit

RebarNext ==
    \/ GetValidElements \/ SelectRebarType \/ EnterCounts \/ RejectCounts
    \/ SkipNoBBox \/ StartPlacement \/ PlaceBar \/ EndLoop \/ CommitPlacement
    \/ LineRaises \/ CreateRaises \/ CommitRaises \/ ShowSummary

\* one invocation of the Rename Views command
RenameSpec == RenameInit /\ [][RenameNext]_vars

\* one invocation of the Manual Rebar Placement command
RebarSpec == RebarInit /\ [][RebarNext]_vars

\* The script runs on the host's command thread: once the dialogs are answered
\* nothing waits on the user, so a step that can be taken is taken.
RenameFairSpec == RenameSpec /\ WF_vars(RenameRun)
RebarFairSpec == RebarSpec /\ WF_vars(RebarRun)

-----------------------------------------------------------------------------
(* Rename Views: properties *)

IsRename == cmd = "rename"

\* the views whose retry loop is over
Finished == IF IsRename /\ txn # "none" THEN {sel_view[k] : k \in 1..(idx - 1)} ELSE {}

\* the candidate name of view v, from the name it had when the command started
Candidate(v) == rule.prefix \o StrReplace(names0[v], rule.find, rule.replace) \o rule.suffix

FreeFor(v, nm) == \A w \in 1..Len(names) : w # v => names[w] # nm

LevelOne == <<"L","-","L","e","v","e","l"," ","1">>

C1_UniqueCandidateStep ==
    (IsRename /\ pc = "try" /\ i = 0 /\ FreeFor(sel_view[idx], Candidate(sel_view[idx])))
        => /\ names'[sel_view[idx]] = Candidate(sel_view[idx])
           /\ tried'[sel_view[idx]] = <<[name |-> Candidate(sel_view[idx]), ok |-> TRUE]>>
           /\ pc' = "loop"
C1_UniqueCandidateKept ==
    \A v \in Finished :
        /\ (Len(tried[v]) = 1 /\ tried[v][1].ok) => names[v] = Candidate(v)
        /\ (names0[v] = FloorPlan1 /\ rule = ExampleRule) => names[v] = LevelOne

\* C1  A selected view whose candidate name collides with no other view's name
\* when it is assigned gets exactly that name, in one attempt and with no
\* sentinel appended, and keeps it to the end of the procedure; the rule
\* prefix "L-", find "FloorPlan", replace "Level", suffix "" turns
\* "FloorPlan 1" into "L-Level 1".
C1_UniqueCandidate == [][C1_UniqueCandidateStep]_vars /\ []C1_UniqueCandidateKept

C1_Witness ==
    /\ IsRename /\ pc = "done" /\ rule = ExampleRule
    /\ names0[1] = FloorPlan1 /\ names[1] = LevelOne /\ Len(tried[1]) = 1

C2_AttemptsOf(v) ==
    LET log == tried[v]
    IN  /\ Len(log) <= 20
        /\ \A j \in 1..Len(log) : log[j].name = Candidate(v) \o Stars(j - 1)
        /\ \A j \in 1..(Len(log) - 1) : ~log[j].ok
        /\ v \in Finished =>
              /\ Len(log) >= 1
              /\ log[Len(log)].ok \/ Len(log) = 20
              /\ log[Len(log)].ok => names[v] = Candidate(v) \o Stars(Len(log) - 1)
        /\ v \notin Finished /\ Len(log) > 0 /\ ~log[Len(log)].ok =>
              /\ sel_view[idx] = v
              /\ new_name = Candidate(v) \o Stars(Len(log))
C2_AttemptStep ==
    \A v \in 1..Len(names) :
        tried'[v] # tried[v] =>
            LET last == tried'[v][Len(tried'[v])]
            IN  /\ Len(tried'[v]) = Len(tried[v]) + 1
                /\ last.ok = FreeFor(v, last.name)
                /\ last.ok => names'[v] = last.name
                /\ ~last.ok => names' = names

\* C2  The names attempted for a view are candidate, candidate*, candidate**,
\* ... in order, one more '*' after each rejected attempt; an attempt is
\* rejected exactly when another view has the name; the attempts stop at the
\* first accepted one or after 20, and the view is then named by the accepted
\* attempt.
C2_RetrySequence ==
    [](IsRename => \A v \in 1..Len(names) : C2_AttemptsOf(v)) /\ [][IsRename => C2_AttemptStep]_vars

C2_Witness ==
    /\ IsRename /\ pc = "done"
    /\ \E v \in Finished : Len(tried[v]) = 20 /\ tried[v][20].ok /\ names[v] = <<"b">> \o Stars(19)

C4_Untouched == txn = "none" /\ names = names0 /\ printed = <<>>
C4_AbortState ==
    IsRename =>
        /\ pc \in {"noviews", "aborted"} => sel_view = <<>> /\ C4_Untouched
        /\ pc = "keyerror" => C4_Untouched
        /\ txn # "none" => sel_view # <<>> /\ rule \in Rules
C4_AbortStep ==
    IsRename =>
        /\ (pc \in {"pick", "noviews"} /\ sel_view' = <<>>) => pc' \in {"noviews", "aborted"}
        /\ pc \notin {"aborted", "keyerror"}

\* C4  When the selection is still empty after the view picker, or the rule
\* dialog is cancelled, the procedure ends there: no transaction was started
\* and every view has the name it had.
C4_AbortNoMutation == []C4_AbortState /\ [][C4_AbortStep]_vars

C4_Witness == IsRename /\ pc = "aborted" /\ sel_view = <<>> /\ names = names0

C8_ExhaustedViews == {v \in Finished : Len(tried[v]) = 20 /\ ~tried[v][20].ok}
C8_ExhaustedState ==
    IsRename =>
        /\ \A v \in C8_ExhaustedViews :
              /\ names[v] = names0[v]
              /\ \A k \in 1..Len(printed) : printed[k][1] # names0[v]
        /\ Len(printed) = Cardinality(Finished \ C8_ExhaustedViews)
        /\ pc = "done" =>
              /\ txn = "committed"
              /\ \A k \in 1..Len(sel_view) : Len(tried[sel_view[k]]) >= 1
        /\ pc # "keyerror" \/ txn = "none"

\* C8  A view whose 20 attempts are all rejected keeps the name it had, has no
\* line printed, does not stop the remaining views from being processed, and
\* the transaction that was started is committed.
C8_Exhaustion ==
    []C8_ExhaustedState /\ ((IsRename /\ txn = "started") ~> (txn = "committed"))

C8_Witness ==
    /\ IsRename /\ pc = "done" /\ txn = "committed" /\ Len(sel_view) = 2
    /\ sel_view[1] \in C8_ExhaustedViews
    /\ tried[sel_view[2]][Len(tried[sel_view[2]])].ok

-----------------------------------------------------------------------------
(* Manual Rebar Placement: properties *)

IsRebar == cmd = "rebar"
Elems == 1..Len(elements)
HasBox(e) == elements[e].bbox # NoBox
IsV(c) == c.dir = "V"
IsH(c) == c.dir = "H"
VCalls(e) == SelectSeq(calls[e], IsV)
HCalls(e) == SelectSeq(calls[e], IsH)
Returned(e) == outcome[e] \in {"committed", "rolledback"}
Committed == {e \in Elems : outcome[e] = "committed"}

\* bar k (from 1) of n lies at lo + cover + (k - 1) * (hi - lo - 2 * cover) / (n - 1),
\* stated on the fraction at.num / at.den without dividing
C5_AtPosition(at, lo, hi, n, k) ==
    /\ at.den > 0
    /\ IF n = 1 THEN at.num = (lo + 40) * at.den
       ELSE at.num * (n - 1) = at.den * ((lo + 40) * (n - 1) + (k - 1) * (hi - lo - 80))
    /\ (k = 1) => at.num = (lo + 40) * at.den
    /\ (n > 1 /\ k = n) => at.num = (hi - 40) * at.den

C5_VerticalPrefix(e) ==
    LET b == elements[e].bbox
        vc == VCalls(e)
    IN  /\ Len(vc) <= vertical
        /\ \A k \in 1..Len(vc) : C5_AtPosition(vc[k].at, b.minX, b.maxX, vertical, k)
        /\ \A k \in 1..Len(calls[e]) : IsV(calls[e][k]) <=> k <= Len(vc)

C5_Example(e) ==
    (elements[e].bbox = Box(0, 1000, 0, 0, 2000) /\ vertical = 3) =>
        [k \in 1..3 |-> VCalls(e)[k].at] =
            <<[num |-> 40, den |-> 1], [num |-> 500, den |-> 1], [num |-> 960, den |-> 1]>>

\* C5 as stated: every element with a bounding box gets exactly verticalCount
\* vertical create calls, bar i at minX + cover + i * s.
C5_AsClaimed ==
    IsRebar => \A e \in Elems :
        (HasBox(e) /\ Returned(e)) => Len(VCalls(e)) = vertical /\ C5_VerticalPrefix(e)

\* C5 (amended)  For an element with a bounding box and verticalCount = n, the
\* vertical create calls come first and the k-th is at
\* x = minX + cover + (k - 1) * s, with s = (width - 2 * cover) / (n - 1) for
\* n > 1 (first bar at minX + cover, last at maxX - cover) and the single bar
\* of n = 1 at minX + cover; there are exactly n of them when no curve or
\* create call raised, and the first of them up to the failing call otherwise.
C5_VerticalPositions ==
    IsRebar => \A e \in Elems :
        HasBox(e) =>
            /\ C5_VerticalPrefix(e)
            /\ (outcome[e] = "committed" \/ Len(HCalls(e)) > 0) =>
                  Len(VCalls(e)) = vertical /\ C5_Example(e)

C5_Witness ==
    /\ IsRebar /\ pc = "done" /\ vertical = 3
    /\ \E e \in Elems :
         /\ outcome[e] = "committed" /\ elements[e].bbox = Box(0, 1000, 0, 0, 2000)
         /\ VCalls(e)[2].at = [num |-> 500, den |-> 1]

C6_Value(c) ==
    CASE c = "1" -> 1 [] c = "2" -> 2 [] c = "3" -> 3 [] c = "4" -> 4 [] c = "5" -> 5
      [] c = "6" -> 6 [] c = "7" -> 7 [] c = "8" -> 8 [] c = "9" -> 9

\* the counts a count string stands for, <<>> when it is refused
C6_Expected(str) ==
    CASE str = None -> <<>>
      [] str = <<>> -> <<>>
      [] str = <<"a","b","c">> -> <<>>
      [] str = <<" "," ">> -> <<>>
      [] str = <<"2"," ","x">> -> <<>>
      [] str = <<"1",".","5">> -> <<>>
      [] str = <<"0">> -> <<1, 1>>
      [] str = <<"-","2"," ","2">> -> <<1, 2>>
      [] str = <<" ","2","\t","1"," ">> -> <<2, 1>>
      [] str = <<"1"," ","2"," ","x">> -> <<1, 2>>
      [] Len(str) = 1 /\ str \notin {None, <<"0">>} -> <<C6_Value(str[1]), C6_Value(str[1])>>
      [] OTHER -> <<C6_Value(str[1]), C6_Value(str[3])>>

\* C6  Whenever a placement transaction has been opened, the count string was
\* read as one or two integers (the second defaulting to the first) and both
\* counts are at least 1, values below 1 being raised to 1; for an empty or
\* unparseable string the command is aborted with no transaction opened and no
\* rebar created.
C6_CountGuard ==
    IsRebar =>
        /\ (t = "started" \/ pc \in {"next", "place", "done"} \/ \E e \in Elems : opened[e] > 0) =>
              /\ <<vertical, horizontal>> = C6_Expected(count_input)
              /\ vertical >= 1 /\ horizontal >= 1
        /\ (pc = "aborted" /\ count_input # <<>>) => C6_Expected(count_input) = <<>>
        /\ pc = "aborted" =>
              /\ t = "none"
              /\ \A e \in Elems : opened[e] = 0 /\ bars[e] = 0 /\ calls[e] = <<>>

C6_Witness ==
    /\ IsRebar /\ t = "started" /\ count_input = <<"-","2"," ","2">>
    /\ vertical = 1 /\ horizontal = 2

C7_FailureState ==
    IsRebar =>
        /\ \A e \in Elems :
              /\ ~HasBox(e) => opened[e] = 0 /\ calls[e] = <<>> /\ outcome[e] \in {"todo", "nobbox"}
              /\ outcome[e] # "todo" => eidx > e
              /\ outcome[e] \in {"nobbox", "rolledback"} =>
                    \A f \in Elems : (f < e /\ outcome[f] = "committed") =>
                        bars[f] = vertical + horizontal
        /\ success_count <= Cardinality(Committed)
        /\ pc = "done" => \A e \in Elems : outcome[e] # "todo"
        /\ pc \in {"next", "place", "done"}
              => \A e \in Elems : e < eidx => outcome[e] # "todo"
C7_FailureStep ==
    (IsRebar /\ pc \in {"next", "place"}) =>
        \A e \in Elems : e # eidx => bars'[e] = bars[e] /\ outcome'[e] = outcome[e]

\* C7  An element whose processing fails, for want of a bounding box or by an
\* exception while a curve or a rebar is made, counts as a failure and nothing
\* more: no transaction is opened for an element with no bounding box, the
\* elements after it are processed, the bars committed for other elements stay,
\* and the run reaches the final summary.
C7_FailureIsolation ==
    /\ []C7_FailureState
    /\ [][C7_FailureStep]_vars
    /\ ((IsRebar /\ pc \in {"next", "place"}) ~> (pc = "done" /\ summary # <<>>))

C7_Witness ==
    /\ IsRebar /\ pc = "done" /\ Len(elements) = 2
    /\ outcome[1] = "committed" /\ outcome[2] = "rolledback" /\ bars[1] = vertical + horizontal

\* C9  One transaction is opened per element with a bounding box and it is
\* always finalized; after the run every element holds either
\* verticalCount + horizontalCount new bars (its transaction committed) or
\* none, and the summary reports the number of committed elements out of the
\* number of filtered elements.
C9_Atomicity ==
    IsRebar =>
        /\ \A e \in Elems :
              /\ opened[e] <= 1
              /\ (HasBox(e) /\ outcome[e] # "todo") => opened[e] = 1
              /\ Returned(e) <=> (opened[e] = 1 /\ (e < eidx \/ pc = "done"))
              /\ (e # eidx \/ pc # "place") =>
                    bars[e] = IF outcome[e] = "committed" THEN vertical + horizontal ELSE 0
        /\ t = "started" <=> pc = "place"
        /\ pc # "place" => pending = 0
        /\ pc = "done" =>
              /\ success_count = Cardinality(Committed)
              /\ summary = <<Cardinality(Committed), Len(elements), vertical, horizontal>>

C9_Witness ==
    /\ IsRebar /\ pc = "done" /\ Len(elements) = 2
    /\ outcome[1] = "rolledback" /\ Len(calls[1]) >= 2 /\ bars[1] = 0
    /\ outcome[2] = "committed" /\ bars[2] = vertical + horizontal
    /\ summary[1] = 1 /\ summary[2] = 2

C10_Within(at, lo, hi) ==
    (lo + 40) * at.den <= at.num /\ at.num <= (hi - 40) * at.den

\* C10  Every curve passed to the create call lies in the bounding box inset
\* by cover: a vertical bar has minX + cover <= x <= maxX - cover and runs from
\* minZ + cover up to maxZ - cover, a horizontal bar has
\* minZ + cover <= z <= maxZ - cover and runs from minX + cover to maxX - cover.
C10_CoverInset ==
    IsRebar => \A e \in Elems : \A k \in 1..Len(calls[e]) :
        LET c == calls[e][k]
            b == elements[e].bbox
        IN  IF IsV(c)
            THEN /\ C10_Within(c.at, b.minX, b.maxX)
                 /\ c.from = b.minZ + 40 /\ c.to = b.maxZ - 40 /\ c.from <= c.to
            ELSE /\ C10_Within(c.at, b.minZ, b.maxZ)
                 /\ c.from = b.minX + 40 /\ c.to = b.maxX - 40 /\ c.from <= c.to

====
